---- MODULE Spec2Model ----
(***************************************************************************)
(* Model of the `ldap` relation-data library of glauth-k8s                 *)
(* (lib/charms/glauth_k8s/v0/ldap.py): the leader gate, the databag        *)
(* encoder, the provider and requirer handlers and the two decoders, run   *)
(* by several units of a provider and of a requirer application over one   *)
(* integration; and of the provider charm's side of it (src/integrations.py): *)
(* the bind account and the record the charm publishes.                    *)
(***************************************************************************)
EXTENDS Integers, FiniteSets, Sequences, TLC

\* ------------------------------------------------------------------------
\* Bounds
\* ------------------------------------------------------------------------
\* relation-changed notifications one requirer unit handles
MaxChanged == 3

\* runs of update-ca-certificates whose exit status the environment decides
MaxRuns == 4

\* ------------------------------------------------------------------------
\* The deployment: two applications with two units each, one integration
\* ------------------------------------------------------------------------
ProviderUnits == {"glauth-k8s/0", "glauth-k8s/1"}
RequirerUnits == {"client/0", "client/1"}
NoUnit == "no-unit"

\* self.app.name and self.model.name of the requirer charm
RequirerAppName == "client"
ModelName == "ldap-model"

\* id of the integration, and an id no integration has
RelId == 7
DeadRelId == 8
NoRelId == 0 - 1

\* ------------------------------------------------------------------------
\* Records and databags
\* ------------------------------------------------------------------------
ProviderKeys == {"url", "base_dn", "bind_dn", "bind_password_secret", "auth_method", "starttls"}
RequirerKeys == {"user", "group"}
BoolKeys == {"starttls"}

\* a databag is a function from a finite set of keys to non-empty strings
EmptyBag == [k \in {} |-> ""]

\* LdapProviderData values the embedding charm may publish: a full record
\* with starttls on, a second one that differs from it in every field but
\* auth_method and has starttls off, and one whose bind_dn is the empty string
MkProviderData(g, dn, tls) ==
    [url |-> IF g = 1 THEN "ldap://h:3893" ELSE "ldap://g:3893",
     base_dn |-> IF g = 1 THEN "dc=x" ELSE "dc=y",
     bind_dn |-> dn,
     bind_password_secret |-> IF g = 1 THEN "secret:1" ELSE "secret:2",
     auth_method |-> "simple",
     starttls |-> tls]

ProviderDataValues ==
    { MkProviderData(1, "cn=a,ou=b,dc=x", TRUE),
      MkProviderData(2, "cn=c,ou=d,dc=y", FALSE),
      MkProviderData(2, "", TRUE) }

\* the `data` argument of LdapRequirer.__init__: None or an LdapRequirerData
NoData == [none |-> TRUE]
RequirerDataValues ==
    { [user |-> "", group |-> ""],
      [user |-> "alice", group |-> ""],
      [user |-> "alice", group |-> "staff"] }

\* ------------------------------------------------------------------------
\* Python helpers
\* ------------------------------------------------------------------------
\* truth value of a field value: a bool is itself, a string is true unless empty
Truthy(k, v) == IF k \in BoolKeys THEN v ELSE v # ""

\* str(v): "True"/"False" for a bool, the string itself for a string
PyStr(k, v) == IF k \in BoolKeys THEN (IF v THEN "True" ELSE "False") ELSE v

\* {k: str(v) if v else "" for k, v in data.items()}
Stringify(data) ==
    [k \in DOMAIN data |-> IF Truthy(k, data[k]) THEN PyStr(k, data[k]) ELSE ""]

\* RelationDataContent.update(data): every key of data is set; setting a key
\* to the empty string removes it from the databag
Update(bag, data) ==
    LET keys == { k \in (DOMAIN bag) \cup (DOMAIN data) :
                    IF k \in DOMAIN data THEN data[k] # "" ELSE TRUE }
    IN  [k \in keys |-> IF k \in DOMAIN data THEN data[k] ELSE bag[k]]

\* outcomes of a call: None, a value, or a raised exception
None == [kind |-> "None", val |-> EmptyBag]
Value(v) == [kind |-> "value", val |-> v]
Raise(e) == [kind |-> e, val |-> EmptyBag]

\* a decoder of the provider's record that gives a field whose key is
\* absent the empty string, or False
FromDictProviderDefaulting(data) ==
    Value([url |-> IF "url" \in DOMAIN data THEN data["url"] ELSE "",
           base_dn |-> IF "base_dn" \in DOMAIN data THEN data["base_dn"] ELSE "",
           bind_dn |-> IF "bind_dn" \in DOMAIN data THEN data["bind_dn"] ELSE "",
           bind_password_secret |->
               IF "bind_password_secret" \in DOMAIN data
               THEN data["bind_password_secret"] ELSE "",
           auth_method |-> IF "auth_method" \in DOMAIN data THEN data["auth_method"] ELSE "",
           starttls |-> "starttls" \in DOMAIN data])

\* dacite.from_dict(LdapProviderData, data, Config(cast=[bool])): every field
\* is required; the bool field is built by bool(str)
FromDictProvider(data) ==
    IF ProviderKeys \subseteq DOMAIN data
    THEN Value([url |-> data["url"],
                base_dn |-> data["base_dn"],
                bind_dn |-> data["bind_dn"],
                bind_password_secret |-> data["bind_password_secret"],
                auth_method |-> data["auth_method"],
                starttls |-> (data["starttls"] # "")])
    ELSE Raise("MissingValueError")

\* a decoder of the requirer's record that reads user into both fields
FromDictRequirerUserOnly(data) ==
    IF RequirerKeys \subseteq DOMAIN data
    THEN Value([user |-> data["user"], group |-> data["user"]])
    ELSE Raise("MissingValueError")

\* dacite.from_dict(LdapRequirerData, data)
FromDictRequirer(data) ==
    IF RequirerKeys \subseteq DOMAIN data
    THEN Value([user |-> data["user"], group |-> data["group"]])
    ELSE Raise("MissingValueError")

\* ------------------------------------------------------------------------
\* The provider charm: configuration and database
\* ------------------------------------------------------------------------
GLAUTH_LDAP_PORT == 3893
DEFAULT_UID == "DEFAULT_UID"
DEFAULT_GID == "DEFAULT_GID"

\* values of the options hostname, base_dn and starttls_enabled
ConfigValues ==
    [hostname : {"h"}, base_dn : {"dc=x", "dc=glauth,dc=com"}, starttls_enabled : BOOLEAN]

\* hashlib.sha256(token_bytes()).hexdigest(): a digest of fresh random bytes
NewPasswords == {"9f86d081884c7d65", "2c26b46b68ffc68f"}

\* a bcrypt hash an operator has set for a user
BcryptPassword == "$2a$10$N9qo8uLOickgx2ZM"

\* the database with no row, and one where the user alice already exists
\* with a bcrypt password
EmptyDb == [groups |-> {}, users |-> {}, capabilities |-> {}]
DbWithUser ==
    [groups |-> {[name |-> "staff", gid_number |-> DEFAULT_GID]},
     users |-> {[name |-> "alice", uid_number |-> DEFAULT_UID, gid_number |-> DEFAULT_GID,
                 password_bcrypt |-> BcryptPassword, password_sha256 |-> ""]},
     capabilities |-> {DEFAULT_UID}]

\* BindAccount(cn, ou, password), and the None of LdapIntegration._bind_account
BindAccount(cn, ou, password) == [cn |-> cn, ou |-> ou, password |-> password]
NoAccount == [none |-> TRUE]

\* a _create_bind_account that does not look for the user and adds one
\* with the digest drawn
create_bind_account_anew(database, user_name, group_name, new_password) ==
    LET user == [name |-> user_name, uid_number |-> DEFAULT_UID,
                 gid_number |-> DEFAULT_GID, password_bcrypt |-> "",
                 password_sha256 |-> new_password]
        group == [name |-> group_name, gid_number |-> DEFAULT_GID]
    IN  [db |-> [groups |-> database.groups \cup {group},
                 users |-> database.users \cup {user},
                 capabilities |-> database.capabilities \cup {DEFAULT_UID}],
         added |-> [groups |-> {group} \ database.groups,
                    users |-> {user},
                    capabilities |-> {DEFAULT_UID} \ database.capabilities],
         account |-> BindAccount(user_name, group_name, new_password)]

\* _create_bind_account(dsn, user_name, group_name) on the database, with
\* new_password the digest drawn for a new user: the database after it,
\* the rows op.add was called with, and the account returned
create_bind_account(database, user_name, group_name, new_password) ==
    LET groups == IF \E g \in database.groups : g.name = group_name
                  THEN database.groups
                  ELSE database.groups \cup
                         {[name |-> group_name, gid_number |-> DEFAULT_GID]}
        found == {usr \in database.users : usr.name = user_name}
        user == IF found # {}
                THEN CHOOSE usr \in found : TRUE
                ELSE [name |-> user_name, uid_number |-> DEFAULT_UID,
                      gid_number |-> DEFAULT_GID, password_bcrypt |-> "",
                      password_sha256 |-> new_password]
        password == IF user.password_bcrypt # "" THEN user.password_bcrypt
                                                 ELSE user.password_sha256
        capabilities == IF DEFAULT_UID \in database.capabilities
                        THEN database.capabilities
                        ELSE database.capabilities \cup {DEFAULT_UID}
    IN  [db |-> [groups |-> groups,
                 users |-> database.users \cup {user},
                 capabilities |-> capabilities],
         added |-> [groups |-> groups \ database.groups,
                    users |-> IF found # {} THEN {} ELSE {user},
                    capabilities |-> capabilities \ database.capabilities],
         account |-> BindAccount(user_name, group_name, password)]

\* LdapIntegration.ldap_url
ldap_url(cfg) == "ldap://" \o cfg.hostname \o ":" \o ToString(GLAUTH_LDAP_PORT)

\* a provider_data that puts the group in cn and the user in ou
provider_data_swapped(cfg, bind_account) ==
    IF bind_account = NoAccount THEN None
    ELSE Value([url |-> ldap_url(cfg),
                base_dn |-> cfg.base_dn,
                bind_dn |-> "cn=" \o bind_account.ou \o ",ou=" \o bind_account.cn
                              \o "," \o cfg.base_dn,
                bind_password_secret |-> bind_account.password,
                auth_method |-> "simple",
                starttls |-> cfg.starttls_enabled])

\* LdapIntegration.provider_data
provider_data(cfg, bind_account) ==
    IF bind_account = NoAccount THEN None
    ELSE Value([url |-> ldap_url(cfg),
                base_dn |-> cfg.base_dn,
                bind_dn |-> "cn=" \o bind_account.cn \o ",ou=" \o bind_account.ou
                              \o "," \o cfg.base_dn,
                bind_password_secret |-> bind_account.password,
                auth_method |-> "simple",
                starttls |-> cfg.starttls_enabled])

\* ------------------------------------------------------------------------
\* The provider charm: certificates
\* ------------------------------------------------------------------------
\* the files update_certificates manages in the workload container
CERTIFICATE_FILE == "CERTIFICATE_FILE"
SERVER_CA_CERT == "SERVER_CA_CERT"
SERVER_KEY == "SERVER_KEY"
SERVER_CERT == "SERVER_CERT"
CertificateFiles == {CERTIFICATE_FILE, SERVER_CA_CERT, SERVER_KEY, SERVER_CERT}

\* a path the container has no file at
Absent == "<absent>"
NoFiles == [file \in CertificateFiles |-> Absent]

\* a value the cert handler has not got: Python's None
NoCert == "<None>"

\* truth value of an Optional[str]: None and the empty string are false
CertTruthy(v) == v # NoCert /\ v # ""

\* what the cert handler can hold: whether the certificates integration
\* exists, and the values it has obtained over it
HandlerStates ==
    [enabled : BOOLEAN,
     ca_cert : {NoCert, "ca"},
     chain : {NoCert, "", "chain"},
     private_key : {NoCert, "key"},
     server_cert : {NoCert, "cert"}]

NoHandler ==
    [enabled |-> FALSE, ca_cert |-> NoCert, chain |-> NoCert,
     private_key |-> NoCert, server_cert |-> NoCert]

\* CertificateData(ca_cert, ca_chain, cert)
CertificateData(ca_cert, ca_chain, cert) ==
    [ca_cert |-> ca_cert, ca_chain |-> ca_chain, cert |-> cert]

\* the certificate data transfer_certificates is called with
CertificateDataValues ==
    {CertificateData("ca", "chain", "cert"),
     CertificateData(NoCert, "chain", "cert"),
     CertificateData("ca", "", "cert"),
     CertificateData("ca", "chain", NoCert),
     CertificateData(NoCert, NoCert, NoCert)}

\* the certificate-transfer integrations the charm can have
TransferRelIds == {11, 12}

\* what a certificate-transfer integration holds of this unit: nothing
\* while it does not exist, no certificate once it does, or the certificate
\* set_certificate has put there
NoRelation == [joined |-> FALSE, ca |-> NoCert, chain |-> NoCert, certificate |-> NoCert]
NoCertificate == [joined |-> TRUE, ca |-> NoCert, chain |-> NoCert, certificate |-> NoCert]
Certificate(data) ==
    [joined |-> TRUE, ca |-> data.ca_cert, chain |-> data.ca_chain,
     certificate |-> data.cert]

\* stop=stop_after_attempt(3)
stop_after_attempt == 3

\* the exit statuses of the runs of update-ca-certificates, TRUE for 0
Runs == [1..MaxRuns -> BOOLEAN]

\* a Retrying that makes one attempt more
RetryingOnceMore(runs) ==
    LET n == CHOOSE n \in 1..(stop_after_attempt + 1) :
                 /\ \A i \in 1..(n - 1) : ~runs[i]
                 /\ runs[n] \/ n = stop_after_attempt + 1
    IN  SubSeq(runs, 1, n)

\* Retrying(stop=stop_after_attempt(3), retry=retry_if_exception_type(
\* CalledProcessError)): the attempts made, which end with the first run
\* that succeeds or with the last attempt allowed
Retrying(runs) ==
    LET n == CHOOSE n \in 1..stop_after_attempt :
                 /\ \A i \in 1..(n - 1) : ~runs[i]
                 /\ runs[n] \/ n = stop_after_attempt
    IN  SubSeq(runs, 1, n)

\* _prepare_certificates: the attempts made and the outcome, the error of
\* the last attempt re-raised as CertificatesError
prepare_certificates(runs) ==
    LET ran == Retrying(runs)
    IN  [ran |-> ran,
         res |-> IF ran[Len(ran)] THEN None ELSE Raise("CertificatesError")]

\* a certs_ready that is content with any one of the four values
certs_ready_any(h) ==
    \/ CertTruthy(h.ca_cert)
    \/ CertTruthy(h.chain)
    \/ CertTruthy(h.private_key)
    \/ CertTruthy(h.server_cert)

\* all((self._ca_cert, self._ca_chain, self._server_key, self._server_cert))
certs_ready(h) ==
    /\ CertTruthy(h.ca_cert)
    /\ CertTruthy(h.chain)
    /\ CertTruthy(h.private_key)
    /\ CertTruthy(h.server_cert)

\* Container.remove_path: PathError for a path that does not exist
remove_path(c, file) ==
    IF c[file] = Absent
    THEN [container |-> c, res |-> Raise("PathError")]
    ELSE [container |-> [c EXCEPT ![file] = Absent], res |-> None]

\* one turn of the loop of _remove_certificates, unless an earlier turn has
\* raised: remove_path under suppress(PathError)
RemoveStep(prev, file) ==
    IF prev.res # None
    THEN prev
    ELSE LET removed == remove_path(prev.container, file)
         IN  IF removed.res = Raise("PathError")
             THEN [container |-> removed.container,
                   suppressed |-> prev.suppressed \cup {file},
                   res |-> None]
             ELSE [container |-> removed.container,
                   suppressed |-> prev.suppressed,
                   res |-> removed.res]

\* _remove_certificates
remove_certificates(c) ==
    RemoveStep(RemoveStep(RemoveStep(RemoveStep(
        [container |-> c, suppressed |-> {}, res |-> None],
        CERTIFICATE_FILE), SERVER_CA_CERT), SERVER_KEY), SERVER_CERT)

\* the CA bundle update-ca-certificates has written
Bundle == "ca-certificates.crt"

\* _push_certificates
push_certificates(c, h) ==
    [file \in CertificateFiles |->
        CASE file = CERTIFICATE_FILE -> Bundle
          [] file = SERVER_CA_CERT -> h.ca_cert
          [] file = SERVER_KEY -> h.private_key
          [] file = SERVER_CERT -> h.server_cert]

\* update_certificates: the container it leaves, the attempts made at
\* update-ca-certificates, the files pushed, the paths whose PathError was
\* suppressed, and the outcome
update_certificates(h, c, runs) ==
    IF ~h.enabled \/ ~certs_ready(h)
    THEN LET removed == remove_certificates(c)
         IN  [container |-> removed.container, ran |-> <<>>, pushed |-> {},
              suppressed |-> removed.suppressed, res |-> removed.res]
    ELSE LET prepared == prepare_certificates(runs)
         IN  IF prepared.res # None
             THEN [container |-> c, ran |-> prepared.ran, pushed |-> {},
                   suppressed |-> {}, res |-> prepared.res]
             ELSE [container |-> push_certificates(c, h), ran |-> prepared.ran,
                   pushed |-> CertificateFiles, suppressed |-> {}, res |-> None]

\* a transfer_certificates that takes no notice of relation_id
transfer_certificates_to_all(t, data, relation_id) ==
    LET relations == {r \in TransferRelIds : t[r].joined}
    IN  IF ~(CertTruthy(data.ca_cert) /\ CertTruthy(data.ca_chain) /\ CertTruthy(data.cert))
        THEN [transfer |-> [r \in TransferRelIds |->
                               IF r \in relations THEN NoCertificate ELSE t[r]],
              set |-> {}, unset |-> relations]
        ELSE [transfer |-> [r \in TransferRelIds |->
                               IF r \in relations THEN Certificate(data) ELSE t[r]],
              set |-> relations, unset |-> {}]

\* transfer_certificates: the integrations as it leaves them, and those it
\* has called set_certificate and remove_certificate for
transfer_certificates(t, data, relation_id) ==
    LET all_relations == {r \in TransferRelIds : t[r].joined}
        relations == IF relation_id # NoRelId
                     THEN {r \in all_relations : r = relation_id}
                     ELSE all_relations
    IN  IF all_relations = {}
        THEN [transfer |-> t, set |-> {}, unset |-> {}]
        ELSE IF ~(CertTruthy(data.ca_cert) /\ CertTruthy(data.ca_chain)
                  /\ CertTruthy(data.cert))
        THEN [transfer |-> [r \in TransferRelIds |->
                               IF r \in relations THEN NoCertificate ELSE t[r]],
              set |-> {}, unset |-> relations]
        ELSE [transfer |-> [r \in TransferRelIds |->
                               IF r \in relations THEN Certificate(data) ELSE t[r]],
              set |-> relations, unset |-> {}]

\* ------------------------------------------------------------------------
\* State
\* ------------------------------------------------------------------------
VARIABLES
    leader,        \* leader[app]: the unit Juju has elected for the app, or NoUnit
    phase,         \* lifecycle of the integration: "absent", "active", "broken"
    provBag,       \* relation.data[provider app]
    reqBag,        \* relation.data[requirer app]
    reqData,       \* LdapRequirer._data, fixed at construction
    rPos,          \* rPos[u]: last lifecycle hook requirer unit u has handled
    pPending,      \* pPending[u]: a relation-changed hook is queued for provider unit u
    rPending,      \* rPending[u]: a relation-changed hook is queued for requirer unit u
    requested,     \* ldap_requested events emitted by the provider's units
    ready,         \* ldap_ready events emitted, per requirer unit
    unavailable,   \* ldap_unavailable events emitted, per requirer unit
    changedSeen,   \* relation-changed hooks handled, per requirer unit
    emptySeen,     \* of those, the ones that found the provider's databag empty
    reqWrites,     \* writes made to the requirer's databag
    last,          \* the handler or API call that ran last, and its outcome
    db,            \* the glauth database: its groups, users and capabilities
    config,        \* the provider charm's configuration options
    handler,       \* the cert handler: enabled, and the values it has obtained
    container,     \* container[file]: content of the file in the workload container
    transfer,      \* transfer[r]: certificate-transfer integration r
    io             \* the certificate operation that ran last, and its outcome

ldapVars == <<leader, phase, provBag, reqBag, reqData, rPos, pPending, rPending,
              requested, ready, unavailable, changedSeen, emptySeen, reqWrites,
              last, db, config>>

tlsVars == <<handler, container, transfer, io>>

vars == <<ldapVars, tlsVars>>

Apps == {"provider", "requirer"}
UnitsOf(app) == IF app = "provider" THEN ProviderUnits ELSE RequirerUnits

\* a leadership test that answers the opposite
IsLeaderInverted(app, u) == leader[app] # u

\* obj.unit.is_leader()
IsLeader(app, u) == leader[app] = u

\* the record kept in `last`: the operation, the unit it ran on, whether the
\* leader gate let it through (FALSE for an operation that is not gated), its
\* relation id and data arguments and its outcome
Ran(op, u, gate, rid, arg, res) ==
    [op |-> op, unit |-> u, isLeader |-> gate, rid |-> rid, arg |-> arg, res |-> res]

\* the state after the charms are constructed, with leaders l and the
\* requirer constructed with data d
InitLibrary(l, d) ==
    /\ leader = l
    /\ phase = "absent"
    /\ provBag = EmptyBag
    /\ reqBag = EmptyBag
    /\ reqData = d
    /\ rPos = [u \in RequirerUnits |-> "new"]
    /\ pPending = [u \in ProviderUnits |-> FALSE]
    /\ rPending = [u \in RequirerUnits |-> FALSE]
    /\ requested = 0
    /\ ready = [u \in RequirerUnits |-> 0]
    /\ unavailable = [u \in RequirerUnits |-> 0]
    /\ changedSeen = [u \in RequirerUnits |-> 0]
    /\ emptySeen = [u \in RequirerUnits |-> 0]
    /\ reqWrites = 0
    /\ last = [op |-> "init", unit |-> NoUnit, isLeader |-> FALSE, rid |-> NoRelId,
               arg |-> EmptyBag, res |-> None]

\* the same, on a provider charm with an empty database and TLS on
\* the record of a certificate operation
Did(op, ran, pushed, suppressed, data, rid, set, unset, res) ==
    [op |-> op, ran |-> ran, pushed |-> pushed, suppressed |-> suppressed,
     data |-> data, rid |-> rid, set |-> set, unset |-> unset, res |-> res]

NoCertificateData == CertificateData(NoCert, NoCert, NoCert)

\* something other than update_certificates and transfer_certificates
Other(op) == Did(op, <<>>, {}, {}, NoCertificateData, NoRelId, {}, {}, None)

\* no certificates integration, no certificate-transfer integration, and an
\* empty workload container
InitCertificates ==
    /\ handler = NoHandler
    /\ container = NoFiles
    /\ transfer = [r \in TransferRelIds |-> NoRelation]
    /\ io = Other("__init__")

InitState(l, d) ==
    /\ InitLibrary(l, d)
    /\ InitCertificates
    /\ db = EmptyDb
    /\ config = [hostname |-> "h", base_dn |-> "dc=x", starttls_enabled |-> TRUE]

\* no leader is elected yet; the requirer is constructed with any data
Init ==
    \E d \in {NoData} \cup RequirerDataValues :
        InitState([a \in Apps |-> NoUnit], d)

\* leaders are elected; the requirer is constructed with empty user and group
InitEvents ==
    \E u \in RequirerUnits :
        InitState([a \in Apps |-> IF a = "provider" THEN "glauth-k8s/0" ELSE u],
                  [user |-> "", group |-> ""])

\* ------------------------------------------------------------------------
\* The library
\* ------------------------------------------------------------------------
\* a gate that lets every unit through
leader_unit_ungated(app, u, run, skip) == run

\* @leader_unit: the wrapped function runs only on the leader; elsewhere the
\* wrapper returns at once.  `run` is what running the wrapped function
\* yields, `skip` what is left when it does not run
leader_unit(app, u, run, skip) == IF ~IsLeader(app, u) THEN skip ELSE run

\* what the function wrapped in the tests of the gate returns
sentinel == "sentinel"

\* a call of a function decorated with @leader_unit that does nothing but
\* return the sentinel, made as in the tests of the gate on a charm that has
\* no integration
WrappedFunc(app, u) ==
    /\ phase = "absent"
    /\ last' = Ran("wrapped_func", u, IsLeader(app, u), NoRelId, EmptyBag,
                   leader_unit(app, u, Value(sentinel), None))
    /\ UNCHANGED <<tlsVars, db, config, leader, phase, provBag, reqBag, reqData, rPos, pPending,
                   rPending, requested, ready, unavailable, changedSeen,
                   emptySeen, reqWrites>>

\* self.charm.model.get_relation(name, relation_id) as unit u sees it: the
\* integration with that id, or with no id the only integration there is
VisibleTo(app, u) ==
    /\ phase # "absent"
    /\ app = "requirer" => rPos[u] # "broken"
    /\ app = "provider" => phase = "active"

\* given an id, the Relation object with that id, which is a dead one when
\* no integration has it ("the relation may be dead, but it is not
\* forgotten"); given None, the only integration there is, or None
get_relation(app, u, relation_id) ==
    IF relation_id = NoRelId
    THEN IF VisibleTo(app, u) THEN RelId ELSE NoRelId
    ELSE relation_id

\* the Relation object is that of an integration the unit is in
Alive(app, u, relation) == relation = RelId /\ VisibleTo(app, u)

\* relation.data[ldap.app].update(data): the databag after the update; the
\* relation-set of the first key fails on a dead Relation and nothing is
\* written
RelationSet(app, u, relation, bag, data) ==
    IF Alive(app, u, relation) THEN Update(bag, Stringify(data)) ELSE bag

\* what the call of _update_relation_app_databag yields: None, or the error
\* of the failed relation-set
RelationSetOutcome(app, u, relation) ==
    leader_unit(app, u,
                IF relation # NoRelId /\ ~Alive(app, u, relation)
                THEN Raise("RelationNotFoundError") ELSE None,
                None)

\* the encoder without its @leader_unit decorator
update_relation_app_databag_undecorated(app, u, relation, bag, data) ==
    IF relation = NoRelId THEN bag ELSE RelationSet(app, u, relation, bag, data)

\* _update_relation_app_databag(ldap, relation, data): the databag of the
\* local application after the call
update_relation_app_databag(app, u, relation, bag, data) ==
    leader_unit(app, u,
                IF relation = NoRelId THEN bag ELSE RelationSet(app, u, relation, bag, data),
                bag)

\* an event data that decodes the requirer's databag without testing it for
\* emptiness
RequestedEventDataUnchecked(relation_data) == FromDictRequirer(relation_data)

\* LdapRequestedEvent.data
RequestedEventData(relation_data) ==
    IF relation_data # EmptyBag THEN FromDictRequirer(relation_data) ELSE None

\* relation.data.get(relation.app) on a requirer unit: the provider's
\* databag, and nothing for a dead Relation, whose app is None
ProviderDataOf(u, relation) ==
    IF Alive("requirer", u, relation) THEN provBag ELSE EmptyBag

\* a consume that decodes the provider's databag without testing it for
\* emptiness
consume_ldap_relation_data_unchecked(u, relation_id) ==
    LET relation == get_relation("requirer", u, relation_id)
    IN  IF relation = NoRelId THEN None
        ELSE FromDictProvider(ProviderDataOf(u, relation))

\* LdapRequirer.consume_ldap_relation_data(relation_id)
consume_ldap_relation_data(u, relation_id) ==
    LET relation == get_relation("requirer", u, relation_id)
    IN  IF relation = NoRelId THEN None
        ELSE IF ProviderDataOf(u, relation) # EmptyBag
             THEN FromDictProvider(ProviderDataOf(u, relation))
             ELSE None

\* ------------------------------------------------------------------------
\* The hosting framework
\* ------------------------------------------------------------------------
\* the operator integrates the two applications
Integrate ==
    /\ phase = "absent"
    /\ phase' = "active"
    /\ UNCHANGED <<tlsVars, db, config, leader, provBag, reqBag, reqData, rPos, pPending, rPending,
                   requested, ready, unavailable, changedSeen, emptySeen,
                   reqWrites, last>>

\* the operator removes the integration
RemoveRelation ==
    /\ phase = "active"
    /\ phase' = "broken"
    /\ UNCHANGED <<tlsVars, db, config, leader, provBag, reqBag, reqData, rPos, pPending, rPending,
                   requested, ready, unavailable, changedSeen, emptySeen,
                   reqWrites, last>>

\* Juju elects a unit of an application: the first leader, or a new one
LeaderElected(app, u) ==
    /\ u # leader[app]
    /\ leader' = [leader EXCEPT ![app] = u]
    /\ UNCHANGED <<tlsVars, db, config, phase, provBag, reqBag, reqData, rPos, pPending,
                   rPending, requested, ready, unavailable, changedSeen,
                   emptySeen, reqWrites, last>>

\* a relation-changed hook is queued for a requirer unit for a reason other
\* than a write to the provider's application databag (a provider unit
\* joined, or changed its unit databag)
RemoteUnitChanged(u) ==
    /\ phase = "active"
    /\ ~rPending[u]
    /\ rPending' = [rPending EXCEPT ![u] = TRUE]
    /\ UNCHANGED <<tlsVars, db, config, leader, phase, provBag, reqBag, reqData, rPos, pPending,
                   requested, ready, unavailable, changedSeen, emptySeen,
                   reqWrites, last>>

\* the hooks a write to an application databag queues on the units of the
\* other application: one relation-changed per unit when the content changed
Notify(pending, old, new) ==
    IF new # old /\ phase = "active" THEN [u \in DOMAIN pending |-> TRUE] ELSE pending

\* the hooks queued on the units of the other application when a unit has
\* handled relation-created and enters the integration: relation-joined,
\* followed by one relation-changed per unit
UnitEntered(pending) ==
    IF phase = "active" THEN [u \in DOMAIN pending |-> TRUE] ELSE pending

\* EventSource.emit: one more event of the kind counted in `counter`
Emit(counter, u) == [counter EXCEPT ![u] = @ + 1]

\* ------------------------------------------------------------------------
\* Provider
\* ------------------------------------------------------------------------
\* a relation-changed handler of the provider that takes the first unit of
\* the application for its leader
OnRelationChangedFirstUnit(u) ==
    /\ phase = "active"
    /\ pPending[u]
    /\ pPending' = [pPending EXCEPT ![u] = FALSE]
    /\ requested' = IF u = "glauth-k8s/0" THEN requested + 1 ELSE requested
    /\ last' = Ran("_on_relation_changed", u, IsLeader("provider", u), RelId, EmptyBag,
                   IF u = "glauth-k8s/0" THEN RequestedEventData(reqBag) ELSE None)
    /\ UNCHANGED <<tlsVars, db, config, leader, phase, provBag, reqBag, reqData, rPos, rPending,
                   ready, unavailable, changedSeen, emptySeen, reqWrites>>

\* a relation-changed handler of the provider without its @leader_unit
\* decorator
OnRelationChangedUndecorated(u) ==
    /\ phase = "active"
    /\ pPending[u]
    /\ pPending' = [pPending EXCEPT ![u] = FALSE]
    /\ requested' = requested + 1
    /\ last' = Ran("_on_relation_changed", u, IsLeader("provider", u), RelId, EmptyBag,
                   RequestedEventData(reqBag))
    /\ UNCHANGED <<tlsVars, db, config, leader, phase, provBag, reqBag, reqData, rPos, rPending,
                   ready, unavailable, changedSeen, emptySeen, reqWrites>>

\* LdapProvider._on_relation_changed, with the read of event.data by the
\* observer of ldap_requested
OnRelationChanged(u) ==
    /\ phase = "active"
    /\ pPending[u]
    /\ pPending' = [pPending EXCEPT ![u] = FALSE]
    /\ requested' = leader_unit("provider", u, requested + 1, requested)
    /\ last' = Ran("_on_relation_changed", u, IsLeader("provider", u), RelId, EmptyBag,
                   leader_unit("provider", u, RequestedEventData(reqBag), None))
    /\ UNCHANGED <<tlsVars, db, config, leader, phase, provBag, reqBag, reqData, rPos, rPending,
                   ready, unavailable, changedSeen, emptySeen, reqWrites>>

\* a publish that writes the databag of the remote application,
\* relation.data[relation.app], and leaves its own alone
UpdateRelationAppDataRemote(u, relation_id, data) ==
    /\ LET relation == get_relation("provider", u, relation_id)
       IN  /\ reqBag' = update_relation_app_databag("provider", u, relation, reqBag, data)
           /\ rPending' = Notify(rPending, reqBag, reqBag')
    /\ last' = Ran("update_relation_app_data", u, IsLeader("provider", u), relation_id, data,
                   RelationSetOutcome("provider", u, get_relation("provider", u, relation_id)))
    /\ UNCHANGED <<tlsVars, db, config, leader, phase, provBag, reqData, rPos, pPending, requested,
                   ready, unavailable, changedSeen, emptySeen, reqWrites>>

\* LdapProvider.update_relation_app_data(relation_id, data)
UpdateRelationAppData(u, relation_id, data) ==
    /\ LET relation == get_relation("provider", u, relation_id)
       IN  /\ provBag' = update_relation_app_databag("provider", u, relation, provBag, data)
           /\ rPending' = Notify(rPending, provBag, provBag')
    /\ last' = Ran("update_relation_app_data", u, IsLeader("provider", u), relation_id, data,
                   RelationSetOutcome("provider", u, get_relation("provider", u, relation_id)))
    /\ UNCHANGED <<tlsVars, db, config, leader, phase, reqBag, reqData, rPos, pPending, requested,
                   ready, unavailable, changedSeen, emptySeen, reqWrites>>

\* ------------------------------------------------------------------------
\* Requirer
\* ------------------------------------------------------------------------
\* self._data.user or self.app.name, self._data.group or self.model.name
RequirerRecord(data) ==
    [user |-> IF data.user # "" THEN data.user ELSE RequirerAppName,
     group |-> IF data.group # "" THEN data.group ELSE ModelName]

\* a relation-created handler that defaults user to the name of the unit,
\* self.unit.name, instead of the name of the application
OnLdapRelationCreatedUnitName(u) ==
    /\ phase # "absent"
    /\ rPos[u] = "new"
    /\ reqData # NoData
    /\ reqBag' = update_relation_app_databag("requirer", u, RelId, reqBag,
                                             [RequirerRecord(reqData) EXCEPT !.user = u])
    /\ reqWrites' = leader_unit("requirer", u, reqWrites + 1, reqWrites)
    /\ pPending' = UnitEntered(Notify(pPending, reqBag, reqBag'))
    /\ rPos' = [rPos EXCEPT ![u] = "created"]
    /\ last' = Ran("_on_ldap_relation_created", u, IsLeader("requirer", u), RelId,
                   RequirerRecord(reqData), None)
    /\ UNCHANGED <<tlsVars, db, config, leader, phase, provBag, reqData, rPending, requested, ready,
                   unavailable, changedSeen, emptySeen>>

\* LdapRequirer._on_ldap_relation_created: reading self._data.user raises
\* when the requirer was constructed without data, and the hook is retried
OnLdapRelationCreated(u) ==
    /\ phase # "absent"
    /\ rPos[u] = "new"
    /\ IF reqData = NoData
       THEN /\ last' = Ran("_on_ldap_relation_created", u, IsLeader("requirer", u), RelId,
                           EmptyBag, Raise("AttributeError"))
            /\ UNCHANGED <<reqBag, rPos, pPending, reqWrites>>
       ELSE /\ reqBag' = update_relation_app_databag("requirer", u, RelId, reqBag,
                                                     RequirerRecord(reqData))
            /\ reqWrites' = leader_unit("requirer", u, reqWrites + 1, reqWrites)
            /\ pPending' = UnitEntered(Notify(pPending, reqBag, reqBag'))
            /\ rPos' = [rPos EXCEPT ![u] = "created"]
            /\ last' = Ran("_on_ldap_relation_created", u, IsLeader("requirer", u), RelId,
                           RequirerRecord(reqData), None)
    /\ UNCHANGED <<tlsVars, db, config, leader, phase, provBag, reqData, rPending, requested, ready,
                   unavailable, changedSeen, emptySeen>>

\* a relation-changed handler of the requirer that emits ldap_ready for the
\* first data it finds and not again
OnLdapRelationChangedOnce(u) ==
    /\ rPos[u] = "created"
    /\ rPending[u]
    /\ changedSeen[u] < MaxChanged
    /\ rPending' = [rPending EXCEPT ![u] = FALSE]
    /\ changedSeen' = [changedSeen EXCEPT ![u] = @ + 1]
    /\ emptySeen' = IF provBag = EmptyBag THEN [emptySeen EXCEPT ![u] = @ + 1]
                                          ELSE emptySeen
    /\ ready' = IF provBag # EmptyBag /\ ready[u] = 0 THEN Emit(ready, u) ELSE ready
    /\ last' = Ran("_on_ldap_relation_changed", u, FALSE, RelId, EmptyBag, None)
    /\ UNCHANGED <<tlsVars, db, config, leader, phase, provBag, reqBag, reqData, rPos, pPending,
                   requested, unavailable, reqWrites>>

\* a relation-changed handler of the requirer that emits ldap_ready without
\* looking at the provider's databag
OnLdapRelationChangedAlways(u) ==
    /\ rPos[u] = "created"
    /\ rPending[u]
    /\ changedSeen[u] < MaxChanged
    /\ rPending' = [rPending EXCEPT ![u] = FALSE]
    /\ changedSeen' = [changedSeen EXCEPT ![u] = @ + 1]
    /\ emptySeen' = IF provBag = EmptyBag THEN [emptySeen EXCEPT ![u] = @ + 1]
                                          ELSE emptySeen
    /\ ready' = Emit(ready, u)
    /\ last' = Ran("_on_ldap_relation_changed", u, FALSE, RelId, EmptyBag, None)
    /\ UNCHANGED <<tlsVars, db, config, leader, phase, provBag, reqBag, reqData, rPos, pPending,
                   requested, unavailable, reqWrites>>

\* LdapRequirer._on_ldap_relation_changed
OnLdapRelationChanged(u) ==
    /\ rPos[u] = "created"
    /\ rPending[u]
    /\ changedSeen[u] < MaxChanged
    /\ rPending' = [rPending EXCEPT ![u] = FALSE]
    /\ changedSeen' = [changedSeen EXCEPT ![u] = @ + 1]
    /\ IF provBag = EmptyBag
       THEN /\ emptySeen' = [emptySeen EXCEPT ![u] = @ + 1]
            /\ UNCHANGED ready
       ELSE /\ ready' = Emit(ready, u)
            /\ UNCHANGED emptySeen
    /\ last' = Ran("_on_ldap_relation_changed", u, FALSE, RelId, EmptyBag, None)
    /\ UNCHANGED <<tlsVars, db, config, leader, phase, provBag, reqBag, reqData, rPos, pPending,
                   requested, unavailable, reqWrites>>

\* a relation-broken handler that emits ldap_ready in place of
\* ldap_unavailable
OnLdapRelationBrokenEmitsReady(u) ==
    /\ phase = "broken"
    /\ rPos[u] = "created"
    /\ ~rPending[u] \/ changedSeen[u] >= MaxChanged
    /\ rPos' = [rPos EXCEPT ![u] = "broken"]
    /\ ready' = Emit(ready, u)
    /\ last' = Ran("_on_ldap_relation_broken", u, FALSE, RelId, EmptyBag, None)
    /\ UNCHANGED <<tlsVars, db, config, leader, phase, provBag, reqBag, reqData, pPending,
                   rPending, requested, unavailable, changedSeen, emptySeen,
                   reqWrites>>

\* a relation-broken handler decorated with @leader_unit
OnLdapRelationBrokenGated(u) ==
    /\ phase = "broken"
    /\ rPos[u] = "created"
    /\ ~rPending[u] \/ changedSeen[u] >= MaxChanged
    /\ rPos' = [rPos EXCEPT ![u] = "broken"]
    /\ unavailable' = leader_unit("requirer", u, Emit(unavailable, u), unavailable)
    /\ last' = Ran("_on_ldap_relation_broken", u, FALSE, RelId, EmptyBag, None)
    /\ UNCHANGED <<tlsVars, db, config, leader, phase, provBag, reqBag, reqData, pPending,
                   rPending, requested, ready, changedSeen, emptySeen, reqWrites>>

\* a relation-broken handler that emits nothing
OnLdapRelationBrokenSilent(u) ==
    /\ phase = "broken"
    /\ rPos[u] = "created"
    /\ ~rPending[u] \/ changedSeen[u] >= MaxChanged
    /\ rPos' = [rPos EXCEPT ![u] = "broken"]
    /\ last' = Ran("_on_ldap_relation_broken", u, FALSE, RelId, EmptyBag, None)
    /\ UNCHANGED <<tlsVars, db, config, leader, phase, provBag, reqBag, reqData, pPending, rPending,
                   requested, ready, unavailable, changedSeen, emptySeen, reqWrites>>

\* LdapRequirer._on_ldap_relation_broken: delivered once the integration is
\* removed, after the relation-changed hooks queued for the unit
OnLdapRelationBroken(u) ==
    /\ phase = "broken"
    /\ rPos[u] = "created"
    /\ ~rPending[u] \/ changedSeen[u] >= MaxChanged
    /\ rPos' = [rPos EXCEPT ![u] = "broken"]
    /\ unavailable' = Emit(unavailable, u)
    /\ last' = Ran("_on_ldap_relation_broken", u, FALSE, RelId, EmptyBag, None)
    /\ UNCHANGED <<tlsVars, db, config, leader, phase, provBag, reqBag, reqData, pPending, rPending,
                   requested, ready, changedSeen, emptySeen, reqWrites>>

\* LdapRequirer.consume_ldap_relation_data(relation_id), called by the
\* embedding charm
ConsumeLdapRelationData(u, relation_id) ==
    /\ last' = Ran("consume_ldap_relation_data", u, FALSE, relation_id,
                   EmptyBag, consume_ldap_relation_data(u, relation_id))
    /\ UNCHANGED <<tlsVars, db, config, leader, phase, provBag, reqBag, reqData, rPos, pPending,
                   rPending, requested, ready, unavailable, changedSeen,
                   emptySeen, reqWrites>>

\* ------------------------------------------------------------------------
\* The provider charm
\* ------------------------------------------------------------------------
\* a relation-changed hook on a unit of the provider charm:
\* LdapProvider._on_relation_changed emits ldap_requested on the leader, and
\* the charm's observer, when the event carries the requirer's record, loads
\* the bind account for its user and group and publishes the provider's
\* record for the integration
OnLdapRequested(u, new_password) ==
    /\ phase = "active"
    /\ pPending[u]
    /\ pPending' = [pPending EXCEPT ![u] = FALSE]
    /\ requested' = leader_unit("provider", u, requested + 1, requested)
    /\ LET data == leader_unit("provider", u, RequestedEventData(reqBag), None)
       IN  IF data.kind = "value"
           THEN LET made == create_bind_account(db, data.val.user, data.val.group,
                                                new_password)
                    record == provider_data(config, made.account).val
                IN  /\ db' = made.db
                    /\ provBag' = update_relation_app_databag("provider", u, RelId,
                                                              provBag, record)
                    /\ rPending' = Notify(rPending, provBag, provBag')
                    /\ last' = Ran("_on_ldap_requested", u, IsLeader("provider", u),
                                   RelId, record, None)
           ELSE /\ UNCHANGED <<db, provBag, rPending>>
                /\ last' = Ran("_on_ldap_requested", u, IsLeader("provider", u),
                               RelId, EmptyBag, data)
    /\ UNCHANGED <<tlsVars, config, leader, phase, reqBag, reqData, rPos, ready, unavailable,
                   changedSeen, emptySeen, reqWrites>>

\* LdapIntegration.load_bind_account(user, group), with the digest that
\* _create_bind_account draws should the user be new
LoadBindAccount(user, group, new_password) ==
    LET made == create_bind_account(db, user, group, new_password)
    IN  /\ db' = made.db
        /\ last' = Ran("load_bind_account", NoUnit, FALSE, NoRelId,
                       [user |-> user, group |-> group],
                       Value([added |-> made.added, account |-> made.account]))
        /\ UNCHANGED <<tlsVars, config, leader, phase, provBag, reqBag, reqData, rPos,
                       pPending, rPending, requested, ready, unavailable,
                       changedSeen, emptySeen, reqWrites>>

\* ------------------------------------------------------------------------
\* The provider charm: certificate files and certificate transfer
\* ------------------------------------------------------------------------
\* the certificates integration is made or removed, or the cert handler
\* obtains or loses values
CertsChanged(h) ==
    /\ h # handler
    /\ handler' = h
    /\ io' = Other("cert_handler")
    /\ UNCHANGED <<ldapVars, container, transfer>>

\* a certificate-transfer integration is made
TransferJoined(r) ==
    /\ ~transfer[r].joined
    /\ transfer' = [transfer EXCEPT ![r] = NoCertificate]
    /\ io' = Other("relation_joined")
    /\ UNCHANGED <<ldapVars, handler, container>>

\* a certificate-transfer integration is removed
TransferDeparted(r) ==
    /\ transfer[r].joined
    /\ transfer' = [transfer EXCEPT ![r] = NoRelation]
    /\ io' = Other("relation_departed")
    /\ UNCHANGED <<ldapVars, handler, container>>

\* CertificatesIntegration.update_certificates, with the exit statuses
\* update-ca-certificates would give
UpdateCertificates(runs) ==
    LET done == update_certificates(handler, container, runs)
    IN  /\ container' = done.container
        /\ io' = Did("update_certificates", done.ran, done.pushed, done.suppressed,
                     NoCertificateData, NoRelId, {}, {}, done.res)
        /\ UNCHANGED <<ldapVars, handler, transfer>>

\* CertificatesTransferIntegration.transfer_certificates
TransferCertificates(data, relation_id) ==
    LET done == transfer_certificates(transfer, data, relation_id)
    IN  /\ transfer' = done.transfer
        /\ io' = Did("transfer_certificates", <<>>, {}, {}, data, relation_id,
                     done.set, done.unset, None)
        /\ UNCHANGED <<ldapVars, handler, container>>

\* ------------------------------------------------------------------------
\* Specifications
\* ------------------------------------------------------------------------
\* the framework's part in both specifications
Framework ==
    \/ Integrate
    \/ RemoveRelation
    \/ \E app \in Apps : \E u \in UnitsOf(app) : LeaderElected(app, u)

\* the exchange of the two records: the requirer publishes its identity, the
\* provider is notified and publishes, the requirer consumes
Next ==
    \/ Framework
    \/ \E u \in RequirerUnits : OnLdapRelationCreated(u)
    \/ \E u \in ProviderUnits : OnRelationChanged(u)
    \/ \E u \in ProviderUnits : \E rid \in {RelId, DeadRelId} :
          \E data \in ProviderDataValues : UpdateRelationAppData(u, rid, data)
    \/ \E u \in RequirerUnits : \E rid \in {RelId, NoRelId} :
          ConsumeLdapRelationData(u, rid)

Spec == Init /\ [][Next]_vars

\* the requirer's event signalling: the lifecycle hooks of the requirer
\* units, with a provider that publishes
NextEvents ==
    \/ Integrate
    \/ RemoveRelation
    \/ \E u \in RequirerUnits : RemoteUnitChanged(u)
    \/ \E u \in ProviderUnits : \E data \in ProviderDataValues :
          UpdateRelationAppData(u, RelId, data)
    \/ \E u \in RequirerUnits : OnLdapRelationCreated(u)
    \/ \E u \in RequirerUnits : OnLdapRelationChanged(u)
    \/ \E u \in RequirerUnits : OnLdapRelationBroken(u)

SpecEvents == InitEvents /\ [][NextEvents]_vars

\* the requirer's event signalling with a provider that publishes one and
\* the same record every time: whatever relation-changed follows the first
\* publish finds the data it found before
TheRecord == MkProviderData(1, "cn=a,ou=b,dc=x", TRUE)

NextRepeat ==
    \/ Integrate
    \/ RemoveRelation
    \/ \E u \in RequirerUnits : RemoteUnitChanged(u)
    \/ \E u \in ProviderUnits : UpdateRelationAppData(u, RelId, TheRecord)
    \/ \E u \in RequirerUnits : OnLdapRelationCreated(u)
    \/ \E u \in RequirerUnits : OnLdapRelationChanged(u)
    \/ \E u \in RequirerUnits : OnLdapRelationBroken(u)

SpecRepeat == InitEvents /\ [][NextRepeat]_vars

\* every handler and API call of both sides over one integration, with the
\* provider's leader fixed and the requirer's leadership moving; the
\* requirer's relation-changed hooks are those the provider's writes queue
NextAll ==
    \/ Integrate
    \/ RemoveRelation
    \/ \E u \in RequirerUnits : LeaderElected("requirer", u)
    \/ \E u \in RequirerUnits : OnLdapRelationCreated(u)
    \/ \E u \in ProviderUnits : OnRelationChanged(u)
    \/ \E u \in ProviderUnits : \E data \in ProviderDataValues :
          UpdateRelationAppData(u, RelId, data)
    \/ \E u \in RequirerUnits : OnLdapRelationChanged(u)
    \/ \E u \in RequirerUnits : OnLdapRelationBroken(u)
    \/ \E u \in RequirerUnits : ConsumeLdapRelationData(u, RelId)
    \/ \E app \in Apps : \E u \in UnitsOf(app) : WrappedFunc(app, u)

SpecAll == InitEvents /\ [][NextAll]_vars

\* the leaders are elected, the requirer is constructed with any record,
\* the provider charm has any configuration and the database is empty or
\* has the user already
InitCharm ==
    \E d \in RequirerDataValues : \E cfg \in ConfigValues :
        \E database \in {EmptyDb, DbWithUser} :
            /\ InitLibrary([a \in Apps |-> IF a = "provider" THEN "glauth-k8s/0"
                                                             ELSE "client/0"], d)
            /\ db = database
            /\ config = cfg
            /\ InitCertificates

\* the data flow with the provider charm publishing: the requirer publishes
\* its identity, the charm creates the bind account and publishes its
\* record, the requirer is notified and consumes
NextCharm ==
    \/ Integrate
    \/ RemoveRelation
    \/ \E u \in RequirerUnits : OnLdapRelationCreated(u)
    \/ \E u \in ProviderUnits : \E pw \in NewPasswords : OnLdapRequested(u, pw)
    \/ \E u \in RequirerUnits : OnLdapRelationChanged(u)
    \/ \E u \in RequirerUnits : OnLdapRelationBroken(u)
    \/ \E u \in RequirerUnits : ConsumeLdapRelationData(u, RelId)

SpecCharm == InitCharm /\ [][NextCharm]_vars

\* Juju runs every hook it has queued for a unit: each handler that stays
\* enabled on a unit is eventually run there
FairHooks ==
    /\ \A u \in RequirerUnits : WF_vars(OnLdapRelationCreated(u))
    /\ \A u \in ProviderUnits : WF_vars(\E pw \in NewPasswords : OnLdapRequested(u, pw))
    /\ \A u \in RequirerUnits : WF_vars(OnLdapRelationChanged(u))
    /\ \A u \in RequirerUnits : WF_vars(OnLdapRelationBroken(u))

\* the data flow under fair delivery of the hooks
SpecLive == SpecCharm /\ FairHooks

\* the certificates of the provider charm: the cert handler and the
\* certificate-transfer integrations change, and the charm updates the
\* files of the container and transfers certificates
NextTls ==
    \/ \E h \in HandlerStates : CertsChanged(h)
    \/ \E r \in TransferRelIds : TransferJoined(r)
    \/ \E r \in TransferRelIds : TransferDeparted(r)
    \/ \E runs \in Runs : UpdateCertificates(runs)
    \/ \E data \in CertificateDataValues : \E rid \in TransferRelIds \cup {NoRelId} :
          TransferCertificates(data, rid)

\* the provider charm is constructed, and has no integration
InitTls == InitState([a \in Apps |-> NoUnit], NoData)

SpecTls == InitTls /\ [][NextTls]_vars

\* the bind accounts of the provider charm: accounts are loaded for users
\* and groups, on a database that is empty or has one user already
UserNames == {"alice", RequirerAppName}
GroupNames == {"staff", ModelName}

InitAccounts ==
    \E database \in {EmptyDb, DbWithUser} :
        /\ InitLibrary([a \in Apps |-> NoUnit], NoData)
        /\ db = database
        /\ config = [hostname |-> "h", base_dn |-> "dc=x", starttls_enabled |-> TRUE]
        /\ InitCertificates

NextAccounts ==
    \E user \in UserNames : \E group \in GroupNames : \E pw \in NewPasswords :
        LoadBindAccount(user, group, pw)

SpecAccounts == InitAccounts /\ [][NextAccounts]_vars

\* ------------------------------------------------------------------------
\* Properties
\* ------------------------------------------------------------------------
\* a record whose string fields are all non-empty
NonEmptyFields(data) == \A k \in DOMAIN data : k \notin BoolKeys => data[k] # ""

\* C1: update_relation_app_data called on a provider unit that is not the
\* leader leaves the provider's databag as it was, whatever the record and
\* whatever the databag held
NonLeaderPublishIsNoOp ==
    [][(/\ last'.op = "update_relation_app_data"
        /\ ~IsLeader("provider", last'.unit)
        /\ UpdateRelationAppData(last'.unit, last'.rid, last'.arg))
          => provBag' = provBag]_vars

\* a non-leader has called update_relation_app_data for the live integration
\* whose databag already held a record, and the record is still there
NonLeaderPublishSeen ==
    /\ last.op = "update_relation_app_data"
    /\ ~last.isLeader
    /\ last.rid = RelId
    /\ phase = "active"
    /\ provBag # EmptyBag
    /\ provBag # Stringify(last.arg)

\* C2: every step that writes an application's databag is taken by the unit
\* that is the application's leader in the state the write is made in
OnlyLeaderWrites ==
    [][/\ provBag' # provBag
            => (last'.unit \in ProviderUnits /\ last'.unit = leader["provider"])
       /\ (reqBag' # reqBag \/ reqWrites' # reqWrites)
            => (last'.unit \in RequirerUnits /\ last'.unit = leader["requirer"])]_vars

\* both requirer units have written as leader, and the second provider unit
\* has published as leader over a record of the first
LeadershipMovedAndWrote ==
    /\ reqWrites = 2
    /\ last.op = "update_relation_app_data"
    /\ last.isLeader
    /\ last.unit = "glauth-k8s/1"
    /\ provBag = Stringify(MkProviderData(1, "cn=a,ou=b,dc=x", TRUE))

\* C3: after the provider's leader publishes a record with non-empty string
\* fields into the empty databag of the live integration, every requirer
\* unit's consume returns that record, starttls being a boolean
ProviderRoundTrip ==
    [][(/\ last'.op = "update_relation_app_data"
        /\ last'.rid = RelId
        /\ IsLeader("provider", last'.unit)
        /\ phase = "active"
        /\ provBag = EmptyBag
        /\ NonEmptyFields(last'.arg)
        /\ UpdateRelationAppData(last'.unit, RelId, last'.arg))
          => \A ru \in RequirerUnits :
                consume_ldap_relation_data(ru, RelId)' = Value(last'.arg)]_vars

\* C4: a decode of a non-empty databag that lacks a required key returns
\* None, in consume and in the data of ldap_requested
DecodeFailureYieldsNone ==
    [][/\ (/\ last'.op = "consume_ldap_relation_data"
           /\ ConsumeLdapRelationData(last'.unit, last'.rid)
           /\ Alive("requirer", last'.unit, get_relation("requirer", last'.unit, last'.rid))
           /\ provBag # EmptyBag
           /\ ~(ProviderKeys \subseteq DOMAIN provBag))
             => last'.res = None
       /\ (/\ last'.op = "_on_relation_changed"
           /\ OnRelationChanged(last'.unit)
           /\ IsLeader("provider", last'.unit)
           /\ reqBag # EmptyBag
           /\ ~(RequirerKeys \subseteq DOMAIN reqBag))
             => last'.res = None]_vars

\* C5: consume returns None when the integration does not exist or the
\* provider's databag is empty, and the data of ldap_requested is None when
\* the requirer's databag is empty
EmptyOrAbsentYieldsNone ==
    [][/\ (/\ last'.op = "consume_ldap_relation_data"
           /\ ConsumeLdapRelationData(last'.unit, last'.rid)
           /\ \/ ~Alive("requirer", last'.unit,
                        get_relation("requirer", last'.unit, last'.rid))
              \/ provBag = EmptyBag)
             => last'.res = None
       /\ (/\ last'.op = "_on_relation_changed"
           /\ OnRelationChanged(last'.unit)
           /\ IsLeader("provider", last'.unit)
           /\ reqBag = EmptyBag)
             => last'.res = None]_vars

\* the provider's leader has emitted ldap_requested while the requirer's
\* databag was still empty, and the event's data was None
RequestedBeforeRequirerWrote ==
    /\ last.op = "_on_relation_changed"
    /\ last.isLeader
    /\ reqBag = EmptyBag
    /\ requested > 0
    /\ last.res = None

\* user and group as the requirer is meant to publish them: the configured
\* value, else the application name and the model name
ExpectedRequirerBag(data) ==
    [user |-> IF data # NoData /\ data.user # "" THEN data.user ELSE RequirerAppName,
     group |-> IF data # NoData /\ data.group # "" THEN data.group ELSE ModelName]

\* C6: relation-created handled on the requirer's leader leaves the
\* requirer's databag holding exactly the configured user and group, the
\* application name and the model name standing in for what is not configured
CreatedPublishesIdentity ==
    [][(/\ last'.op = "_on_ldap_relation_created"
        /\ OnLdapRelationCreated(last'.unit)
        /\ IsLeader("requirer", last'.unit)
        /\ phase = "active")
          => reqBag' = ExpectedRequirerBag(reqData)]_vars

\* C7: a requirer unit that has emitted ldap_ready and has handled
\* relation-broken has emitted ldap_unavailable exactly once, and from then
\* on emits neither ldap_ready nor ldap_unavailable
UnavailableOnceThenSilent ==
    /\ [](\A u \in RequirerUnits :
            (ready[u] > 0 /\ rPos[u] = "broken") => unavailable[u] = 1)
    /\ [][\A u \in RequirerUnits :
            unavailable[u] > 0
               => (ready'[u] = ready[u] /\ unavailable'[u] = unavailable[u])]_vars

\* a unit that was ready has handled relation-broken
BrokenAfterReady ==
    \E u \in RequirerUnits :
        /\ ready[u] > 0
        /\ rPos[u] = "broken"
        /\ unavailable[u] = 1
        /\ last.op = "_on_ldap_relation_broken"

\* C8: a relation-changed handled while the provider's databag is empty
\* emits no ldap_ready; after two of those and a third that finds the
\* record, the unit has emitted exactly one ldap_ready, in the third
ReadyOnlyWithData ==
    /\ [][(last'.op = "_on_ldap_relation_changed" /\ OnLdapRelationChanged(last'.unit))
            => /\ provBag = EmptyBag => ready' = ready
               /\ (/\ provBag # EmptyBag
                   /\ changedSeen[last'.unit] = 2
                   /\ emptySeen[last'.unit] = 2)
                     => (ready[last'.unit] = 0 /\ ready'[last'.unit] = 1)]_vars
    /\ [](\A u \in RequirerUnits :
            (changedSeen[u] = 3 /\ emptySeen[u] = 2) => ready[u] = 1)

\* a unit has handled two relation-changed with the databag empty and a
\* third with a full record in it
ThirdChangedFoundRecord ==
    \E u \in RequirerUnits :
        /\ changedSeen[u] = 3
        /\ emptySeen[u] = 2
        /\ ready[u] = 1
        /\ DOMAIN provBag = ProviderKeys
        /\ last.op = "_on_ldap_relation_changed"
        /\ last.unit = u

\* C9: the provider has emitted no more ldap_requested events than the
\* requirer has made writes to its databag
RequestedAtMostOncePerWrite == requested <= reqWrites

\* C9, amended: every relation-changed hook a provider unit handles as
\* leader emits exactly one ldap_requested, one handled by a non-leader emits
\* none, and no other step emits one
RequestedOncePerHandledChange ==
    [][IF last'.op = "_on_relation_changed" /\ OnRelationChanged(last'.unit)
       THEN requested' = IF IsLeader("provider", last'.unit) THEN requested + 1
                                                             ELSE requested
       ELSE requested' = requested]_vars

\* the provider's leader has emitted more ldap_requested events than the
\* requirer made writes
RequestedExceedsWrites ==
    /\ last.op = "_on_relation_changed"
    /\ last.isLeader
    /\ reqWrites > 0
    /\ requested > reqWrites

\* a databag that is empty, or holds all six keys with the values of one
\* of the records
EmptyOrComplete(bag) ==
    \/ bag = EmptyBag
    \/ /\ DOMAIN bag = ProviderKeys
       /\ \E data \in ProviderDataValues :
             \A k \in ProviderKeys : bag[k] = PyStr(k, data[k])

\* C10: the provider's databag is empty or holds all six keys of one
\* published record: publishing a record with non-empty fields into a
\* databag that is empty or complete leaves it empty or complete
PublishedRecordIsComplete ==
    [][(/\ last'.op = "update_relation_app_data"
        /\ NonEmptyFields(last'.arg)
        /\ EmptyOrComplete(provBag)
        /\ UpdateRelationAppData(last'.unit, last'.rid, last'.arg))
          => EmptyOrComplete(provBag')]_vars

\* the operations of the provider object and of the requirer object
ProviderOps == {"_on_relation_changed", "update_relation_app_data"}
RequirerOps == {"_on_ldap_relation_created", "_on_ldap_relation_changed",
                "_on_ldap_relation_broken", "consume_ldap_relation_data"}

\* the application a unit belongs to
AppOf(u) == IF u \in ProviderUnits THEN "provider" ELSE "requirer"

\* the step is operation `last'.op` run with the arguments kept in last'
StepOf(op) ==
    /\ last'.op = op
    /\ CASE op = "_on_relation_changed" -> OnRelationChanged(last'.unit)
         [] op = "update_relation_app_data" ->
               UpdateRelationAppData(last'.unit, last'.rid, last'.arg)
         [] op = "_on_ldap_relation_created" -> OnLdapRelationCreated(last'.unit)
         [] op = "_on_ldap_relation_changed" -> OnLdapRelationChanged(last'.unit)
         [] op = "_on_ldap_relation_broken" -> OnLdapRelationBroken(last'.unit)
         [] op = "consume_ldap_relation_data" ->
               ConsumeLdapRelationData(last'.unit, last'.rid)
         [] op = "wrapped_func" -> WrappedFunc(AppOf(last'.unit), last'.unit)

\* C11: a step of a provider operation leaves the requirer's databag as it
\* was and a step of a requirer operation leaves the provider's databag as
\* it was; a databag changes only in a step of an operation of its own side
EachSideWritesItsOwnBag ==
    [][/\ \A op \in ProviderOps : StepOf(op) => reqBag' = reqBag
       /\ \A op \in RequirerOps : StepOf(op) => provBag' = provBag
       /\ provBag' # provBag => last'.op \in ProviderOps
       /\ reqBag' # reqBag => last'.op \in RequirerOps]_vars

\* both leaders have written: the provider's databag holds a record and the
\* requirer's holds user and group, the last step being a publish that
\* replaced one record by another
BothSidesWrote ==
    /\ last.op = "update_relation_app_data"
    /\ last.isLeader
    /\ reqBag = [user |-> RequirerAppName, group |-> ModelName]
    /\ provBag = Stringify(MkProviderData(1, "cn=a,ou=b,dc=x", TRUE))
    /\ requested > 0
    /\ \E u \in RequirerUnits : ready[u] > 0

\* C12: once the requirer's leader has written a record r with non-empty
\* user and group through the encoder, the data of ldap_requested equals r:
\* as decoded from the databag the write leaves, and as the provider's
\* leader reads it in every later relation-changed
RequirerRoundTrip ==
    [][/\ (/\ last'.op = "_on_ldap_relation_created"
           /\ OnLdapRelationCreated(last'.unit)
           /\ IsLeader("requirer", last'.unit)
           /\ phase = "active"
           /\ reqData # NoData
           /\ NonEmptyFields(last'.arg))
             => RequestedEventData(reqBag') = Value(last'.arg)
       /\ (/\ last'.op = "_on_relation_changed"
           /\ OnRelationChanged(last'.unit)
           /\ IsLeader("provider", last'.unit)
           /\ reqWrites > 0)
             => last'.res = Value(RequirerRecord(reqData))]_vars

\* the provider's leader has read the record of a requirer configured with
\* a user and a group of its own
RequestedCarriesRecord ==
    /\ last.op = "_on_relation_changed"
    /\ last.isLeader
    /\ reqWrites > 0
    /\ reqData = [user |-> "alice", group |-> "staff"]
    /\ last.res = Value([user |-> "alice", group |-> "staff"])
    /\ reqBag = [user |-> "alice", group |-> "staff"]

\* C13: consume_ldap_relation_data called while the provider's databag
\* lacks a required key returns no record (None, or the decoder's
\* MissingValueError), and every record it does return has all six fields,
\* each taken from the databag
NoPartialRecord ==
    [][(/\ last'.op = "consume_ldap_relation_data"
        /\ ConsumeLdapRelationData(last'.unit, last'.rid))
          => /\ ~(ProviderKeys \subseteq DOMAIN provBag)
                   => last'.res \in {None, Raise("MissingValueError")}
             /\ last'.res.kind = "value"
                   => /\ DOMAIN last'.res.val = ProviderKeys
                      /\ ProviderKeys \subseteq DOMAIN provBag
                      /\ \A k \in ProviderKeys \ BoolKeys :
                            last'.res.val[k] = provBag[k]
                      /\ last'.res.val["starttls"] = (provBag["starttls"] # "")]_vars

\* a requirer unit has consumed a databag that holds every key but bind_dn
\* and got the decoder's error
ConsumedWithoutBindDn ==
    /\ last.op = "consume_ldap_relation_data"
    /\ Alive("requirer", last.unit, get_relation("requirer", last.unit, last.rid))
    /\ DOMAIN provBag = ProviderKeys \ {"bind_dn"}
    /\ last.res = Raise("MissingValueError")

\* C14: a call of a leader-gated function on the leader runs the function
\* and returns its result, and a call on a unit that is not the leader
\* returns None and runs nothing: the wrapped function returns the sentinel
\* or None, relation-changed on the provider emits ldap_requested or
\* nothing, and the two writers write their databag or leave it alone
LeaderGateRunsOrSkips ==
    [][/\ StepOf("wrapped_func")
             => last'.res = IF leader[AppOf(last'.unit)] = last'.unit
                            THEN Value(sentinel) ELSE None
       /\ StepOf("_on_relation_changed")
             => IF leader["provider"] = last'.unit
                THEN requested' = requested + 1 /\ last'.res = RequestedEventData(reqBag)
                ELSE requested' = requested /\ last'.res = None
       /\ (StepOf("update_relation_app_data") /\ phase = "active")
             => provBag' = IF leader["provider"] = last'.unit
                           THEN Update(provBag, Stringify(last'.arg))
                           ELSE provBag
       /\ (StepOf("_on_ldap_relation_created") /\ reqData # NoData)
             => IF leader["requirer"] = last'.unit
                THEN /\ reqBag' = Update(reqBag, Stringify(RequirerRecord(reqData)))
                     /\ reqWrites' = reqWrites + 1
                ELSE /\ reqBag' = reqBag
                     /\ reqWrites' = reqWrites]_vars

\* the wrapped function has been called on a unit that lost the leadership
\* to another unit, and returned None
GateSkippedAfterRuns ==
    /\ last.op = "wrapped_func"
    /\ last.unit = "client/0"
    /\ leader["requirer"] = "client/1"
    /\ last.res = None

\* C15: update_relation_app_data called with the id of no integration the
\* unit is in returns without raising and leaves both databags as they were
PublishToMissingIsSilent ==
    [][(/\ last'.op = "update_relation_app_data"
        /\ UpdateRelationAppData(last'.unit, last'.rid, last'.arg)
        /\ ~Alive("provider", last'.unit,
                  get_relation("provider", last'.unit, last'.rid)))
          => /\ last'.res = None
             /\ provBag' = provBag
             /\ reqBag' = reqBag]_vars

\* C16: once the requirer's databag holds user and group, no step changes
\* it, whichever unit handles relation-created or relation-changed and
\* however the leadership moves among the requirer's units
RequirerRecordImmutable ==
    [][(RequirerKeys \subseteq DOMAIN reqBag) => reqBag' = reqBag]_vars

\* both requirer units have written the record, each as the leader of its
\* time, and a unit has handled a relation-changed since
WrittenTwiceUnchanged ==
    /\ reqWrites = 2
    /\ last.op = "_on_ldap_relation_changed"
    /\ phase = "active"
    /\ reqBag = [user |-> RequirerAppName, group |-> ModelName]

\* C17: the record the charm has published has bind_dn equal to
\* cn=<user>,ou=<group>,<base_dn>, user and group being what the requirer's
\* databag holds and base_dn what the record holds; for a requirer with no
\* user and group configured that is cn=<application name>,ou=<model name>
BindDnNamesRequirer ==
    provBag # EmptyBag
       => /\ {"bind_dn", "base_dn"} \subseteq DOMAIN provBag
          /\ RequirerKeys \subseteq DOMAIN reqBag
          /\ provBag["bind_dn"] = "cn=" \o reqBag["user"] \o ",ou=" \o reqBag["group"]
                                     \o "," \o provBag["base_dn"]
          /\ reqData = [user |-> "", group |-> ""]
                => provBag["bind_dn"] = "cn=" \o RequirerAppName \o ",ou=" \o ModelName
                                          \o "," \o config.base_dn

\* a requirer with no user and group configured has consumed the record the
\* charm published for it
ConsumedDefaultBindDn ==
    /\ last.op = "consume_ldap_relation_data"
    /\ last.res.kind = "value"
    /\ reqData = [user |-> "", group |-> ""]
    /\ last.res.val["bind_dn"] = "cn=client,ou=ldap-model,dc=glauth,dc=com"

\* the strings of the model that are references to a secret
SecretReferences == {"secret:1", "secret:2"}

\* C18: the bind_password_secret in the provider's databag is a reference
\* to a secret, never a password hash of the bind account
SecretIsReference ==
    "bind_password_secret" \in DOMAIN provBag
       => /\ provBag["bind_password_secret"] \in SecretReferences
          /\ provBag["bind_password_secret"] \notin NewPasswords \cup {BcryptPassword}

\* the requirer has emitted ldap_ready and consume returns the record that
\* is in the provider's databag
ReadyAndConsumed ==
    \E u \in RequirerUnits :
        /\ ready[u] > 0
        /\ consume_ldap_relation_data(u, RelId).kind = "value"
        /\ Stringify(consume_ldap_relation_data(u, RelId).val) = provBag

\* C19: with leaders in place, hooks delivered fairly and the charm
\* publishing whenever it handles ldap_requested, an integration that is
\* created and not removed leads to a state where the requirer has emitted
\* ldap_ready and consume returns the published record
DataFlowCompletes == (phase = "active") ~> (phase = "broken" \/ ReadyAndConsumed)

\* the state of the integration as a requirer unit sees it
RequirerState(u) ==
    CASE rPos[u] = "new" -> "NEW"
      [] rPos[u] = "broken" -> "GONE"
      [] rPos[u] = "created" /\ ready[u] = 0 -> "AWAITING_DATA"
      [] rPos[u] = "created" /\ ready[u] > 0 -> "READY"

\* the steps of the state machine, other than staying in a state
RequirerSteps ==
    { <<"NEW", "AWAITING_DATA">>, <<"AWAITING_DATA", "READY">>,
      <<"AWAITING_DATA", "GONE">>, <<"READY", "GONE">> }

\* C20: every step of a requirer unit is a step of the state machine
\* NEW -> AWAITING_DATA -> READY -> GONE or leaves the state as it is;
\* ldap_ready is emitted only between relation-created and relation-broken
\* and puts the unit in READY; a relation-changed handled in READY does not
\* find the provider's databag empty; ldap_unavailable is emitted on
\* entering GONE, and no event is emitted in GONE
RequirerRefinesStateMachine ==
    [][\A u \in RequirerUnits :
         /\ \/ RequirerState(u)' = RequirerState(u)
            \/ <<RequirerState(u), RequirerState(u)'>> \in RequirerSteps
         /\ ready'[u] # ready[u]
               => /\ rPos[u] = "created"
                  /\ RequirerState(u)' = "READY"
                  /\ provBag # EmptyBag
         /\ RequirerState(u) = "READY" => emptySeen'[u] = emptySeen[u]
         /\ unavailable'[u] # unavailable[u]
               => (RequirerState(u) # "GONE" /\ RequirerState(u)' = "GONE")
         /\ RequirerState(u) = "GONE"
               => (ready'[u] = ready[u] /\ unavailable'[u] = unavailable[u])]_vars

\* a unit has been through the four states: it found the databag empty,
\* then was ready twice, and has handled relation-broken
WentThroughAllStates ==
    \E u \in RequirerUnits :
        /\ RequirerState(u) = "GONE"
        /\ emptySeen[u] = 1
        /\ ready[u] = 2
        /\ unavailable[u] = 1

\* C21: a relation-changed handled by a provider unit that is not the
\* leader emits no ldap_requested and writes no databag, and every
\* ldap_requested is emitted by a relation-changed handled on the unit that
\* is the leader at that time
OnlyLeaderEmitsRequested ==
    [][/\ (StepOf("_on_relation_changed") /\ leader["provider"] # last'.unit)
             => /\ requested' = requested
                /\ provBag' = provBag
                /\ reqBag' = reqBag
                /\ last'.res = None
       /\ requested' # requested
             => /\ last'.op = "_on_relation_changed"
                /\ last'.unit = leader["provider"]
                /\ requested' = requested + 1]_vars

\* the unit that was the leader and emitted ldap_requested has lost the
\* leadership and has handled a further relation-changed, emitting nothing
FormerLeaderHandledChanged ==
    /\ last.op = "_on_relation_changed"
    /\ last.unit = "glauth-k8s/0"
    /\ leader["provider"] = "glauth-k8s/1"
    /\ last.res = None
    /\ requested = 1
    /\ reqBag # EmptyBag

\* C22: relation-created handled on a requirer unit that is not the leader
\* returns without error and leaves the requirer's databag as it was,
\* whatever data the requirer was constructed with
NonLeaderCreatedIsNoOp ==
    [][(StepOf("_on_ldap_relation_created") /\ leader["requirer"] # last'.unit)
          => /\ last'.res = None
             /\ reqBag' = reqBag
             /\ reqWrites' = reqWrites]_vars

\* C23: every relation-broken a requirer unit handles emits exactly one
\* ldap_unavailable on that unit, be the unit the leader or not and be the
\* provider's databag empty or not, and emits nothing else
BrokenAlwaysEmitsUnavailable ==
    [][StepOf("_on_ldap_relation_broken")
          => /\ unavailable' = Emit(unavailable, last'.unit)
             /\ ready' = ready
             /\ requested' = requested]_vars

\* a unit that is not the leader and never saw the provider's data has
\* handled relation-broken and emitted ldap_unavailable
NonLeaderBrokenWithoutData ==
    /\ last.op = "_on_ldap_relation_broken"
    /\ leader["requirer"] # last.unit
    /\ provBag = EmptyBag
    /\ ready[last.unit] = 0
    /\ unavailable[last.unit] = 1

\* C24: every relation-changed a requirer unit handles while the provider's
\* databag is not empty emits one ldap_ready on that unit, also when the
\* unit has emitted ldap_ready before and the databag holds what it held then
ReadyOnEveryNonEmptyChange ==
    [][(StepOf("_on_ldap_relation_changed") /\ provBag # EmptyBag)
          => ready' = Emit(ready, last'.unit)]_vars

\* a unit has emitted ldap_ready three times for the one record the
\* provider ever published
ReadyThriceForOneRecord ==
    \E u \in RequirerUnits :
        /\ ready[u] = 3
        /\ changedSeen[u] = 3
        /\ provBag = Stringify(TheRecord)
        /\ last.op = "_on_ldap_relation_changed"
        /\ last.unit = u

\* a value the cert handler or the caller has got
Available(v) == v \notin {NoCert, ""}

\* the cert handler is enabled and has got all four values
EnabledAndComplete(h) ==
    /\ h.enabled
    /\ Available(h.ca_cert)
    /\ Available(h.chain)
    /\ Available(h.private_key)
    /\ Available(h.server_cert)

\* C25: when update_certificates returns without error, the four
\* certificate files are in the workload container if the cert handler is
\* enabled and has the CA certificate, the chain, the server key and the
\* server certificate; otherwise none of the four is there, nothing was
\* pushed, and the call returns without error also where a path was missing
CertificateFilesFollowReadiness ==
    [][io'.op = "update_certificates"
          => IF EnabledAndComplete(handler)
             THEN io'.res = None
                     => /\ \A file \in CertificateFiles : container'[file] # Absent
                        /\ container'[SERVER_CA_CERT] = handler.ca_cert
                        /\ container'[SERVER_KEY] = handler.private_key
                        /\ container'[SERVER_CERT] = handler.server_cert
                        /\ io'.pushed = CertificateFiles
             ELSE /\ io'.res = None
                  /\ \A file \in CertificateFiles : container'[file] = Absent
                  /\ io'.pushed = {}
                  /\ io'.suppressed = {file \in CertificateFiles : container[file] = Absent}]_vars

\* update_certificates has returned without error for an enabled cert
\* handler that lacks the chain, all four paths being missing already
RemovedMissingFiles ==
    /\ io.op = "update_certificates"
    /\ io.res = None
    /\ handler.enabled
    /\ handler.chain = ""
    /\ Available(handler.ca_cert)
    /\ io.suppressed = CertificateFiles
    /\ container = NoFiles

\* C26: update_certificates with certificates ready runs
\* update-ca-certificates at most three times, every run but the last
\* having failed; when the last run made succeeded the call returns, and
\* when it failed it was the third, the call raises CertificatesError and
\* the container is as it was, nothing pushed
RetriesStopAtFirstSuccess ==
    [][(io'.op = "update_certificates" /\ EnabledAndComplete(handler))
          => /\ Len(io'.ran) \in 1..3
             /\ \A i \in 1..(Len(io'.ran) - 1) : ~io'.ran[i]
             /\ IF io'.ran[Len(io'.ran)]
                THEN io'.res = None
                ELSE /\ Len(io'.ran) = 3
                     /\ io'.res = Raise("CertificatesError")
                     /\ io'.pushed = {}
                     /\ container' = container]_vars

\* three runs have failed, CertificatesError is raised, and the container
\* has none of the files
ThreeFailuresNothingPushed ==
    /\ io.op = "update_certificates"
    /\ io.ran = <<FALSE, FALSE, FALSE>>
    /\ io.res = Raise("CertificatesError")
    /\ EnabledAndComplete(handler)
    /\ container = NoFiles

\* C27: transfer_certificates changes no certificate-transfer integration
\* but the targeted ones, which are all that exist, or of those the one
\* with the given relation_id; it calls remove_certificate for each of them
\* and set_certificate for none when ca_cert, ca_chain or cert is missing,
\* and set_certificate for each and remove_certificate for none otherwise;
\* where no certificate-transfer integration exists it does nothing
TransferActsOnTargetedOnly ==
    [][io'.op = "transfer_certificates"
          => LET existing == {r \in TransferRelIds : transfer[r].joined}
                 targeted == IF io'.rid = NoRelId THEN existing
                                                  ELSE existing \cap {io'.rid}
                 complete == /\ Available(io'.data.ca_cert)
                             /\ Available(io'.data.ca_chain)
                             /\ Available(io'.data.cert)
             IN  /\ \A r \in TransferRelIds \ targeted : transfer'[r] = transfer[r]
                 /\ IF complete
                    THEN /\ io'.set = targeted
                         /\ io'.unset = {}
                         /\ \A r \in targeted :
                               /\ transfer'[r].ca = io'.data.ca_cert
                               /\ transfer'[r].chain = io'.data.ca_chain
                               /\ transfer'[r].certificate = io'.data.cert
                    ELSE /\ io'.set = {}
                         /\ io'.unset = targeted
                         /\ \A r \in targeted : transfer'[r] = NoCertificate
                 /\ existing = {} => (transfer' = transfer /\ io'.set = {} /\ io'.unset = {})]_vars

\* the certificate was removed from integration 11 alone, integration 12
\* keeping the one it had
RemovedFromOneOfTwo ==
    /\ io.op = "transfer_certificates"
    /\ io.rid = 11
    /\ io.unset = {11}
    /\ transfer[11] = NoCertificate
    /\ transfer[12].certificate = "cert"

\* no row was added
NoRows == [groups |-> {}, users |-> {}, capabilities |-> {}]

\* C28: a call of _create_bind_account that follows a call with the same
\* user and group adds no group, user or capability row, leaves the
\* database as it is, and returns the account the first call returned, the
\* password included
CreateBindAccountIdempotent ==
    [][(/\ last.op = "load_bind_account"
        /\ last'.op = "load_bind_account"
        /\ last'.arg = last.arg)
          => /\ last'.res.val.added = NoRows
             /\ db' = db
             /\ last'.res.val.account = last.res.val.account]_vars

\* an account was loaded a second time for a user the first call had
\* created: no row added, and the password is the digest of the first call
LoadedTwice ==
    /\ last.op = "load_bind_account"
    /\ last.arg = [user |-> RequirerAppName, group |-> ModelName]
    /\ last.res.val.added = NoRows
    /\ last.res.val.account.password \in NewPasswords
    /\ \E usr \in db.users : /\ usr.name = RequirerAppName
                             /\ usr.password_sha256 = last.res.val.account.password

====
